---- MODULE Spec2Model ----
\* Model of distillation/hidden_distillation.py:
\*   - convert_examples_to_features (the feature encoder), specification SpecEnc;
\*   - main (checkpoint discovery, the distillation training loop, the final
\*     save), specification Spec.
EXTENDS Integers, Sequences, FiniteSets, TLC

\* ---------------------------------------------------------------- bounds
MaxSeqLength == 3       \* max_seq_length ranges over 1..MaxSeqLength
MaxExamples == 2        \* len(examples) ranges over 0..MaxExamples
MaxAnn == 2             \* len(example.label) ranges over 0..MaxAnn
MaxLabels == 3          \* len(label_list) ranges over 1..MaxLabels
MaxRuns == 2            \* runs of main on one output directory
MaxEpochs == 2          \* num_train_epochs ranges over 0, 0.5, .., MaxEpochs
MaxTrain == 3           \* len(train_examples) ranges over 1..MaxTrain
MaxBatch == 2           \* --train_batch_size ranges over 1..MaxBatch
MaxAcc == 2             \* --gradient_accumulation_steps ranges over 0..MaxAcc

\* ------------------------------------------------------- strings and labels
\* A Python string is a sequence of one-character strings.
TAB == "\t"
Chars == {"a", "b"}

RangeOf(s) == { s[k] : k \in 1..Len(s) }

\* Python's seq[:n], n possibly negative.
PySliceTo(s, n) ==
    IF n >= 0
    THEN SubSeq(s, 1, IF n < Len(s) THEN n ELSE Len(s))
    ELSE SubSeq(s, 1, IF Len(s) + n > 0 THEN Len(s) + n ELSE 0)

\* l.split('\t')[0]: the part of l before its first separator.
SplitHead(l) ==
    IF TAB \in RangeOf(l)
    THEN LET first == CHOOSE k \in 1..Len(l) :
                         /\ l[k] = TAB
                         /\ \A m \in 1..(k - 1) : l[m] # TAB
         IN  SubSeq(l, 1, first - 1)
    ELSE l

NormalizeDropRest(l) ==
    IF TAB \in RangeOf(l) THEN l ELSE <<l[1], TAB>>

\* if '\t' not in l: l = l[0] + '\t' + l[1:]      (l non-empty)
NormalizeLabel(l) ==
    IF TAB \in RangeOf(l) THEN l ELSE <<l[1], TAB>> \o Tail(l)

\* The labels of the data: new format (with separator), legacy format
\* (without), and a label of a single character.
LabelPool ==
    { <<"a", TAB, "1">>, <<"a", TAB, "2">>, <<"b", TAB, "1">>,
      <<"a", "1">>, <<"b", "2">>, <<"b">> }

SeqsUpTo(S, n) == UNION { [1..m -> S] : m \in 1..n }

\* info.json "phones": every list of 1..MaxLabels different labels of the
\* pool (the corpus script writes sorted(list(phones)), phones a set).
Vocabularies ==
    { v \in SeqsUpTo(LabelPool, MaxLabels) :
        \A k \in 1..Len(v), m \in 1..Len(v) : k # m => v[k] # v[m] }

\* The vocabularies the examples are encoded against: one label, legacy
\* format, two characters, three labels, and the same label in both formats.
EncVocabularies ==
    { <<<<"a", TAB, "1">>>>,
      <<<<"a", "1">>, <<"a", "2">>>>,
      <<<<"a", TAB, "1">>, <<"b", TAB, "1">>>>,
      <<<<"a", TAB, "1">>, <<"b", TAB, "1">>, <<"a", TAB, "2">>>>,
      <<<<"a", "1">>, <<"a", TAB, "1">>>> }

\* Labels carried by annotations: of the vocabularies in either format, the
\* empty string and a label of no vocabulary.
AnnLabels ==
    { <<"a", TAB, "1">>, <<"a", "1">>, <<"a", TAB, "2">>, <<"b", TAB, "1">>,
      <<>>, <<"a", TAB, "9">> }

\* example.position and the annotation positions: -1 (character not found by
\* the corpus script) up to one past the last slot of the window.
Positions == -1..(MaxSeqLength - 1)

\* Token sequences of the examples (one token per character).
Texts == { <<>> } \cup { <<<<c>>>> : c \in Chars }
           \cup { <<<<c>>, <<d>>>> : c \in Chars, d \in Chars }

CLS == <<"[CLS]">>
SEP == <<"[SEP]">>

\* tokenizer.convert_tokens_to_ids: the vocabulary index of each token.
TokenId(tok) ==
    CASE tok = CLS -> 101
      [] tok = SEP -> 102
      [] tok = <<"a">> -> 1
      [] tok = <<"b">> -> 2

ConvertTokensToIds(toks) == [k \in 1..Len(toks) |-> TokenId(toks[k])]

Repeat(x, n) == [k \in 1..(IF n > 0 THEN n ELSE 0) |-> x]

\* ------------------------------------------------------------ the encoder
VARIABLES
    e_pc,            \* position in convert_examples_to_features
    e_err,           \* the exception that ended it, "" when none
    calls,           \* calls of the encoder begun on this label_list
    label_list,      \* the label vocabulary (normalised in place)
    max_seq_length,
    label_count,     \* running count of accepted annotations per label index
    masks,           \* the candidate mask, one replica
    attention_mask,  \* the hybrid attention mask, one replica: head, row, column
    weight,          \* class weights, as <<numerator, denominator>>
    n_features,      \* len(features)
    feature,         \* features[-1] right after its append, else NoFeature
    text,            \* example.text of the example being encoded
    tokens, input_ids, input_mask, label_ids,
    ann_i, ann_l,    \* the loop variables i, l of "for i, l in example.label"
    n_ann,           \* annotations of this example iterated so far
    position         \* example.position of the example just finished

encVars == <<e_pc, e_err, calls, label_list, max_seq_length, label_count,
             masks, attention_mask, weight, n_features, feature, text, tokens, input_ids,
             input_mask, label_ids, ann_i, ann_l, n_ann, position>>

\* ------------------------------------------------------------------- main
VARIABLES
    pc,              \* position in main; "idle" between runs
    err,             \* the exception that ended the run, "" when none
    run,             \* runs started on the output directory
    dir,             \* args.output_dir: file name -> content
    do_train,
    gradient_accumulation_steps,
    train_batch_size,
    n_examples,      \* len(train_examples)
    num_train_epochs_x2,   \* args.num_train_epochs (a float), in halves
    num_train_optimization_steps,
    max_epoch,
    model,           \* the student's state: epochs and optimizer steps behind it
    model_file,      \* the file the student's state was last loaded from
    config_file,     \* the file the student's configuration was last loaded from
    optimizer,       \* the optimizer's state: steps taken
    optimizer_file,  \* the file the optimizer's state was loaded from
    grads,           \* batches whose gradients are accumulated and not yet reset
    global_step,
    ep, step,        \* the loop variables of the epoch and batch loops
    written,         \* the files this run has written, in order
    options,         \* args.no_pretrain, config_path (given), eval_every_epoch, fp16
    loaded,          \* what this run has loaded of corpus, tokenizer and teacher
    eval_features,   \* whether the held-out set has been encoded (line 564)
    lr_this_step     \* the warmup fraction the loop last set the rate from

mainVars == <<pc, err, run, dir, do_train,
              gradient_accumulation_steps, train_batch_size, n_examples,
              num_train_epochs_x2, num_train_optimization_steps, max_epoch,
              model, model_file, config_file, optimizer, optimizer_file,
              grads, global_step, ep, step, written,
              options, loaded, eval_features, lr_this_step>>

vars == <<encVars, mainVars>>

NoFeature == [input_ids |-> <<>>, input_mask |-> <<>>, label_id |-> <<>>,
              label_pos |-> -2]

\* label_map = {label: i for i, label in enumerate(label_list)} (0-based; a
\* label listed twice keeps its last index); label_map['_'] = -1.
InLabelMap(ll, l) == l = <<"_">> \/ \E k \in 1..Len(ll) : ll[k] = l

LabelMap(ll, l) ==
    IF l = <<"_">> THEN -1
    ELSE (CHOOSE k \in 1..Len(ll) :
             ll[k] = l /\ \A m \in (k + 1)..Len(ll) : ll[m] # l) - 1

\* label_word[c]: label_map[label] for every label of character c.
LabelWord(ll, c) ==
    { LabelMap(ll, ll[k]) : k \in { m \in 1..Len(ll) : SplitHead(ll[m]) = c } }

\* masks = ones; masks[i, label_word[c_i]] = 0  (rows and columns 0-based).
CandidateMask(ll) ==
    [i \in 0..(Len(ll) - 1) |->
        [j \in 0..(Len(ll) - 1) |->
            IF j \in LabelWord(ll, SplitHead(ll[i + 1])) THEN 0 ELSE 1]]

\* torch.ones(n, n), rows and columns 0-based.
Ones(n) == [r \in 0..(n - 1) |-> [c \in 0..(n - 1) |-> 1]]

TrilStrict(m, d) ==
    [r \in DOMAIN m |-> [c \in DOMAIN m[r] |-> IF c - r < d THEN m[r][c] ELSE 0]]

\* torch.tril(m, d): the entries on and below the d-th diagonal, 0 elsewhere.
Tril(m, d) ==
    [r \in DOMAIN m |-> [c \in DOMAIN m[r] |-> IF c - r <= d THEN m[r][c] ELSE 0]]

\* torch.triu(m, d): the entries on and above the d-th diagonal, 0 elsewhere.
Triu(m, d) ==
    [r \in DOMAIN m |-> [c \in DOMAIN m[r] |-> IF c - r >= d THEN m[r][c] ELSE 0]]

\* Line 144: the mask has 12 heads.
Heads == 12

\* Lines 144-151: ones; heads :2 left, 2:4 right, 4:6 local attention.
HybridAttentionMask(n) ==
    [h \in 0..(Heads - 1) |->
        IF h < 2 THEN Tril(Ones(n), 0)
        ELSE IF h < 4 THEN Triu(Ones(n), 0)
        ELSE IF h < 6 THEN Triu(Tril(Ones(n), 1), -1)
        ELSE Ones(n)]

MaxOf(f) == CHOOSE x \in { f[k] : k \in DOMAIN f } :
                \A k \in DOMAIN f : f[k] <= x

Smoothing == 100

ClassWeightNoSmoothing(lc) ==
    [k \in DOMAIN lc |-> <<MaxOf(lc), lc[k]>>]

\* weight = [max(label_count) / (lc + 100) for lc in label_count]
ClassWeight(lc) ==
    [k \in DOMAIN lc |-> <<MaxOf(lc), lc[k] + Smoothing>>]

EncIdle ==
    /\ e_pc = "start"
    /\ e_err = ""
    /\ calls = 0
    /\ label_count = <<>>
    /\ masks = <<>>
    /\ attention_mask = <<>>
    /\ weight = <<>>
    /\ n_features = 0
    /\ feature = NoFeature
    /\ text = <<>>
    /\ tokens = <<>>
    /\ input_ids = <<>>
    /\ input_mask = <<>>
    /\ label_ids = <<>>
    /\ ann_i = -1
    /\ ann_l = <<>>
    /\ n_ann = 0
    /\ position = -1

\* Lines 124-152: normalise the vocabulary in place, zero the counts, build
\* the candidate mask.
Prepare ==
    /\ e_pc = "start"
    /\ calls' = calls + 1
    /\ label_list' = [k \in 1..Len(label_list) |-> NormalizeLabel(label_list[k])]
    /\ label_count' = [k \in 0..(Len(label_list) - 1) |-> 0]
    /\ masks' = CandidateMask(label_list')
    /\ attention_mask' = HybridAttentionMask(max_seq_length)
    /\ e_pc' = "examples"
    /\ UNCHANGED <<e_err, max_seq_length, weight, n_features, feature, text,
                   tokens, input_ids, input_mask, label_ids, ann_i, ann_l,
                   n_ann, position>>

TruncateOffByOne(t, msl) ==
    IF Len(t) > msl - 2 THEN PySliceTo(t, msl - 1) ELSE t

\* Lines 158-162: tokens_a = example.text, cut to max_seq_length - 2.
Truncate(t, msl) ==
    IF Len(t) > msl - 2 THEN PySliceTo(t, msl - 2) ELSE t

\* Lines 155-191: the next example's tokens, ids, mask and empty label_ids.
BeginExample(t) ==
    /\ e_pc = "examples"
    /\ n_features < MaxExamples
    /\ text' = t
    /\ tokens' = <<CLS>> \o Truncate(t, max_seq_length) \o <<SEP>>
    /\ input_ids' = ConvertTokensToIds(tokens')
    /\ input_mask' = Repeat(1, Len(input_ids'))
    /\ label_ids' = Repeat(-1, max_seq_length)
    /\ feature' = NoFeature
    /\ position' = -1
    /\ e_pc' = "labels"
    /\ UNCHANGED <<e_err, calls, label_list, max_seq_length, label_count,
                   masks, weight, n_features, ann_i, ann_l, n_ann,
                   attention_mask>>

AnnotationInRange(toks, i, l) ==
    /\ l # <<>>
    /\ i + 1 < Len(toks)

\* Lines 194-197: the try block passes (l[0] and tokens[i + 1] raise no
\* IndexError, the assert no AssertionError).
AnnotationMatches(toks, i, l) ==
    /\ l # <<>>
    /\ i + 1 < Len(toks)
    /\ toks[i + 2] = SplitHead(NormalizeLabel(l))

SetLabelNoOffset(ids, i, v) == [ids EXCEPT ![i + 1] = v]

\* Line 203: label_ids[i + 1] = label_map[l] (ids is 0-based in the source).
SetLabel(ids, i, v) == [ids EXCEPT ![i + 2] = v]

\* Lines 193-204: one iteration of "for i, l in example.label".
Annotate(i, l) ==
    /\ e_pc = "labels"
    /\ n_ann < MaxAnn
    /\ n_ann' = n_ann + 1
    /\ ann_i' = i
    /\ ann_l' = l
    /\ IF ~AnnotationMatches(tokens, i, l)
       THEN UNCHANGED <<e_pc, e_err, label_ids, label_count>>
       ELSE LET nl == NormalizeLabel(l) IN
            IF ~InLabelMap(label_list, nl)
            THEN /\ e_pc' = "failed"
                 /\ e_err' = "KeyError"
                 /\ UNCHANGED <<label_ids, label_count>>
            ELSE IF i + 1 >= Len(label_ids)
            THEN /\ e_pc' = "failed"
                 /\ e_err' = "IndexError"
                 /\ UNCHANGED <<label_ids, label_count>>
            ELSE /\ label_ids' = SetLabel(label_ids, i, LabelMap(label_list, nl))
                 /\ label_count' = [label_count EXCEPT
                                      ![LabelMap(label_list, nl)] = @ + 1]
                 /\ UNCHANGED <<e_pc, e_err>>
    /\ UNCHANGED <<calls, label_list, max_seq_length, masks, weight,
                   n_features, feature, text, tokens, input_ids, input_mask,
                   position,
                   attention_mask>>

LabelPosNoOffset(p) == p

\* Line 213.
LabelPos(p) == p + 1

\* Lines 206-208: padding = [0] * (max_seq_length - len(input_ids)).
PadTo(s, msl) == s \o Repeat(0, msl - Len(s))

\* Lines 205-238: pad, check the lengths and the polyphone position, append.
\* The locals of the finished example are dead from here on and are cleared.
EndExample(p) ==
    /\ e_pc = "labels"
    /\ position' = p
    /\ LET ids == PadTo(input_ids, max_seq_length)
           mask == PadTo(input_mask, max_seq_length)
       IN  IF /\ Len(ids) = max_seq_length
              /\ Len(mask) = max_seq_length
              /\ Len(label_ids) = max_seq_length
              /\ LabelPos(p) < max_seq_length
           THEN /\ feature' = [input_ids |-> ids, input_mask |-> mask,
                               label_id |-> label_ids,
                               label_pos |-> LabelPos(p)]
                /\ n_features' = n_features + 1
                /\ e_pc' = "examples"
                /\ UNCHANGED e_err
           ELSE /\ e_pc' = "failed"
                /\ e_err' = "AssertionError"
                /\ UNCHANGED <<feature, n_features>>
    /\ tokens' = <<>>
    /\ input_ids' = <<>>
    /\ input_mask' = <<>>
    /\ label_ids' = <<>>
    /\ ann_i' = -1
    /\ ann_l' = <<>>
    /\ n_ann' = 0
    /\ UNCHANGED <<calls, label_list, max_seq_length, label_count, masks,
                   weight, text,
                   attention_mask>>

\* Lines 239-243: the class weights; the function returns.
Finish ==
    /\ e_pc = "examples"
    /\ weight' = ClassWeight(label_count)
    /\ e_pc' = "done"
    /\ UNCHANGED <<e_err, calls, label_list, max_seq_length, label_count,
                   masks, n_features, feature, text, tokens, input_ids,
                   input_mask, label_ids, ann_i, ann_l, n_ann, position,
                   attention_mask>>

\* Lines 560-565: with eval_every_epoch, main calls the encoder a second time
\* on the same label_list object.
CallAgain ==
    /\ e_pc = "done"
    /\ calls < 2
    /\ e_pc' = "start"
    /\ n_features' = 0
    /\ feature' = NoFeature
    /\ text' = <<>>
    /\ position' = -1
    /\ UNCHANGED <<e_err, calls, label_list, max_seq_length, label_count,
                   masks, weight, tokens, input_ids, input_mask, label_ids,
                   ann_i, ann_l, n_ann,
                   attention_mask>>

\* ------------------------------------------------------- main: the files
NoFile == [kind |-> "none", tagged |-> FALSE, tag |-> 0]

\* os.path.join(args.output_dir, WEIGHTS_NAME + '_' + str(e)) and the like.
WeightsFile(e) == [kind |-> "weights", tagged |-> TRUE, tag |-> e]
OptimizerFile(e) == [kind |-> "optimizer", tagged |-> TRUE, tag |-> e]
ConfigFile(e) == [kind |-> "config", tagged |-> TRUE, tag |-> e]

\* os.path.join(args.output_dir, WEIGHTS_NAME) and the like.
FinalWeightsFile == [kind |-> "weights", tagged |-> FALSE, tag |-> 0]
FinalOptimizerFile == [kind |-> "optimizer", tagged |-> FALSE, tag |-> 0]
FinalConfigFile == [kind |-> "config", tagged |-> FALSE, tag |-> 0]

Exists(d, f) == f \in DOMAIN d

SaveReplacing(d, f, c) == f :> c

\* torch.save(state, f) / open(f, 'w').write(..): create or overwrite f.
Save(d, f, c) == (f :> c) @@ d

MaxOfSet(S) == CHOOSE x \in S : \A y \in S : y <= x
MinOfSet(S) == CHOOSE x \in S : \A y \in S : x <= y

FindMinEpoch(d) ==
    MinOfSet(IF \E g \in DOMAIN d : g.kind = "weights" /\ g.tagged
             THEN { f.tag : f \in { g \in DOMAIN d : g.kind = "weights" /\ g.tagged } }
             ELSE { -1 })

\* Lines 451, 461-464: the largest epoch suffix of the weights files other
\* than the untagged one, -1 when there is none.
FindMaxEpoch(d) ==
    MaxOfSet({ -1 } \cup
             { f.tag : f \in { g \in DOMAIN d : g.kind = "weights" /\ g.tagged } })

\* A freshly constructed student (pretrained or from a configuration) and a
\* freshly constructed optimizer.
FreshModel == [epochs |-> 0, steps |-> 0]
FreshOptimizer == [steps |-> 0]
TheConfig == [config |-> "student"]

\* int(args.num_train_epochs)
IntEpochs(x2) == x2 \div 2

CeilDiv(a, b) == (a + b - 1) \div b

\* Lines 442-446: ceil(len(train_examples) / train_batch_size /
\* gradient_accumulation_steps * num_train_epochs), single process.
TotalSteps(n, bs, k, x2) == CeilDiv(n * x2, bs * k * 2)

\* len(train_dataloader): DataLoader(train_data, batch_size=train_batch_size).
NumBatches == CeilDiv(n_examples, train_batch_size)

\* The argparse defaults of --no_pretrain, --config_path, --eval_every_epoch
\* and --fp16 (lines 343-380); config_path is whether a path is given.
DefaultOptions == [no_pretrain |-> FALSE, config_path |-> FALSE,
                   eval_every_epoch |-> FALSE, fp16 |-> FALSE]

AllOptions == [no_pretrain : BOOLEAN, config_path : BOOLEAN,
               eval_every_epoch : BOOLEAN, fp16 : BOOLEAN]

\* The loop has not set param_group['lr'].
NoRate == << >>

\* The messages of the ValueErrors main raises (lines 416, 428, 473, 476).
BadAccumulation == "ValueError: Invalid gradient_accumulation_steps parameter"
NoMode == "ValueError: At least one of do_train or do_eval must be True"
NoCheckpoint == "ValueError: Output directory already exists but no model checkpoint was found"
NoConfig == "ValueError: Config file is needed when not using the pretrained model"

MainIdle ==
    /\ pc = "idle"
    /\ err = ""
    /\ run = 0
    /\ dir = << >>
    /\ do_train = FALSE
    /\ gradient_accumulation_steps = 1
    /\ train_batch_size = 1
    /\ n_examples = 1
    /\ num_train_epochs_x2 = 0
    /\ num_train_optimization_steps = 0
    /\ max_epoch = -1
    /\ model = FreshModel
    /\ model_file = NoFile
    /\ config_file = NoFile
    /\ optimizer = FreshOptimizer
    /\ optimizer_file = NoFile
    /\ grads = 0
    /\ global_step = 0
    /\ ep = 0
    /\ step = 0
    /\ written = << >>
    /\ options = DefaultOptions
    /\ loaded = {}
    /\ eval_features = FALSE
    /\ lr_this_step = NoRate

Fail(e) ==
    /\ pc' = "error"
    /\ err' = e

\* Lines 394-428: a new process parses its arguments, rejects an
\* accumulation factor below 1, divides the batch size by the factor and
\* rejects a run that asks for neither training nor evaluation.
Start(dt, de, k, bs, n, x2, o) ==
    /\ pc = "idle"
    /\ run < MaxRuns
    /\ run' = run + 1
    /\ options' = o
    /\ do_train' = dt
    /\ gradient_accumulation_steps' = k
    /\ n_examples' = n
    /\ num_train_epochs_x2' = x2
    /\ IF k < 1
       THEN /\ Fail(BadAccumulation)
            /\ train_batch_size' = bs
       ELSE /\ train_batch_size' = bs \div k
            /\ IF ~dt /\ ~de
               THEN Fail(NoMode)
               ELSE /\ pc' = "data"
                    /\ UNCHANGED err
    /\ UNCHANGED <<dir, num_train_optimization_steps, max_epoch, model,
                   model_file, optimizer, optimizer_file, grads, global_step,
                   ep, step, written,
                   config_file, loaded, eval_features, lr_this_step>>

\* The command line of a run that leaves the four options at their defaults.
StartRun ==
    /\ pc = "idle"
    /\ \E dt \in BOOLEAN, de \in BOOLEAN, k \in 0..MaxAcc, bs \in 1..MaxBatch,
          n \in 1..MaxTrain, x2 \in 0..(2 * MaxEpochs) :
            Start(dt, de, k, bs, n, x2, DefaultOptions)

\* The command line of a first run on the output directory, with any options.
StartRunOptions ==
    /\ pc = "idle"
    /\ run = 0
    /\ \E dt \in BOOLEAN, de \in BOOLEAN, k \in 0..MaxAcc, bs \in 1..MaxBatch,
          n \in 1..MaxTrain, x2 \in 0..(2 * MaxEpochs), o \in AllOptions :
            Start(dt, de, k, bs, n, x2, o)

\* Lines 432-446: labels, tokenizer, train examples, the number of steps.
LoadData ==
    /\ pc = "data"
    /\ loaded' = loaded \cup {"corpus", "tokenizer"}
    /\ IF do_train /\ train_batch_size = 0
       THEN /\ Fail("ZeroDivisionError")
            /\ UNCHANGED num_train_optimization_steps
       ELSE /\ num_train_optimization_steps' =
                  IF do_train
                  THEN TotalSteps(n_examples, train_batch_size,
                                  gradient_accumulation_steps, num_train_epochs_x2)
                  ELSE 0
            /\ pc' = "teacher"
            /\ UNCHANGED err
    /\ UNCHANGED <<run, dir, do_train, gradient_accumulation_steps,
                   train_batch_size, n_examples, num_train_epochs_x2,
                   max_epoch, model, model_file, optimizer, optimizer_file,
                   grads, global_step, ep, step, written,
                   config_file,
                   options, eval_features, lr_this_step>>

\* Lines 451-457: max_epoch = -1; the teacher is built and its weights loaded.
LoadTeacher ==
    /\ pc = "teacher"
    /\ max_epoch' = -1
    /\ loaded' = loaded \cup {"teacher"}
    /\ pc' = "student"
    /\ UNCHANGED <<err, run, dir, do_train,
                   gradient_accumulation_steps, train_batch_size, n_examples,
                   num_train_epochs_x2, num_train_optimization_steps, model,
                   model_file, optimizer, optimizer_file, grads, global_step,
                   ep, step, written,
                   config_file,
                   options, eval_features, lr_this_step>>

ResumeRequestedIfTagged(d, dt) ==
    dt /\ \E g \in DOMAIN d : g.kind = "weights" /\ g.tagged

\* Line 459: os.path.exists(output_dir) and os.listdir(output_dir) and do_train.
ResumeRequested(d, dt) == DOMAIN d # {} /\ dt

\* Lines 459-504: resume from the latest epoch's weights when the output
\* directory is not empty and training is requested, else a fresh student.
BuildStudent ==
    /\ pc = "student"
    /\ IF ResumeRequested(dir, do_train)
       THEN LET m == FindMaxEpoch(dir) IN
            /\ max_epoch' = m
            /\ IF Exists(dir, WeightsFile(m))
               THEN IF Exists(dir, ConfigFile(0))
                    THEN /\ config_file' = ConfigFile(0)
                         /\ model' = dir[WeightsFile(m)]
                         /\ model_file' = WeightsFile(m)
                         /\ pc' = "optimizer"
                         /\ UNCHANGED err
                    ELSE /\ Fail("FileNotFoundError")
                         /\ UNCHANGED <<model, model_file, config_file>>
               ELSE /\ Fail(NoCheckpoint)
                    /\ UNCHANGED <<model, model_file, config_file>>
       ELSE IF options.no_pretrain /\ ~options.config_path
       THEN /\ Fail(NoConfig)
            /\ UNCHANGED <<max_epoch, model, model_file, config_file>>
       ELSE /\ model' = FreshModel
            /\ model_file' = NoFile
            /\ config_file' = NoFile
            /\ pc' = "optimizer"
            /\ UNCHANGED <<err, max_epoch>>
    /\ UNCHANGED <<run, dir, do_train, gradient_accumulation_steps,
                   train_batch_size, n_examples, num_train_epochs_x2,
                   num_train_optimization_steps, optimizer, optimizer_file,
                   grads, global_step, ep, step, written,
                   options, loaded, eval_features, lr_this_step>>

\* Lines 523-558: a new optimizer; its state is loaded from the file tagged
\* max_epoch when that file exists; global_step = 0.
BuildOptimizer ==
    /\ pc = "optimizer"
    /\ IF Exists(dir, OptimizerFile(max_epoch))
       THEN /\ optimizer' = dir[OptimizerFile(max_epoch)]
            /\ optimizer_file' = OptimizerFile(max_epoch)
       ELSE /\ optimizer' = FreshOptimizer
            /\ optimizer_file' = NoFile
    /\ grads' = 0
    /\ global_step' = 0
    /\ pc' = "setup"
    /\ UNCHANGED <<err, run, dir, do_train,
                   gradient_accumulation_steps, train_batch_size, n_examples,
                   num_train_epochs_x2, num_train_optimization_steps,
                   max_epoch, model, model_file, ep, step, written,
                   config_file,
                   options, loaded, eval_features, lr_this_step>>

\* Lines 559-592: the training features and the data loader; without
\* do_train the run goes to line 652.
SetupTraining ==
    /\ pc = "setup"
    /\ pc' = IF do_train THEN "epoch" ELSE "done"
    /\ ep' = 0
    /\ eval_features' = (do_train /\ options.eval_every_epoch)
    /\ UNCHANGED <<err, run, dir, do_train,
                   gradient_accumulation_steps, train_batch_size, n_examples,
                   num_train_epochs_x2, num_train_optimization_steps,
                   max_epoch, model, model_file, optimizer, optimizer_file,
                   grads, global_step, step, written,
                   config_file,
                   options, loaded, lr_this_step>>

EpochEnded(m) == [m EXCEPT !.epochs = @ + 1]

EpochsLeftOneLess(e, x2) == e < IntEpochs(x2) - 1

\* Line 593: for ep in trange(int(args.num_train_epochs)).
EpochsLeft(e, x2) == e < IntEpochs(x2)

\* Lines 593-596: the next epoch begins, or the loop is over.
BeginEpoch ==
    /\ pc = "epoch"
    /\ IF EpochsLeft(ep, num_train_epochs_x2)
       THEN /\ step' = 0
            /\ IF NumBatches = 0
               THEN /\ pc' = "save_weights"
                    /\ model' = EpochEnded(model)
               ELSE /\ pc' = "batch"
                    /\ UNCHANGED model
       ELSE /\ pc' = "final_weights"
            /\ UNCHANGED <<step, model>>
    /\ UNCHANGED <<err, run, dir, do_train,
                   gradient_accumulation_steps, train_batch_size, n_examples,
                   num_train_epochs_x2, num_train_optimization_steps,
                   max_epoch, model_file, optimizer, optimizer_file, grads,
                   global_step, ep, written,
                   config_file,
                   options, loaded, eval_features, lr_this_step>>

LoopSetsRateWithoutFp16(fp) == ~fp

\* Line 617: if args.fp16, the loop computes lr_this_step and sets it.
LoopSetsRate(fp) == fp

UpdateDueOffByOne(s, k) == s % k = 0

\* Line 616: if (step + 1) % args.gradient_accumulation_steps == 0.
UpdateDue(s, k) == (s + 1) % k = 0

\* Lines 596-626: one batch: teacher forward, student loss, backward, and
\* every gradient_accumulation_steps-th batch the optimizer step, the
\* gradient reset and global_step += 1.
TrainBatch ==
    /\ pc = "batch"
    /\ step < NumBatches
    /\ LET m == IF UpdateDue(step, gradient_accumulation_steps)
                THEN [model EXCEPT !.steps = @ + 1]
                ELSE model
       IN  model' = IF step + 1 = NumBatches THEN EpochEnded(m) ELSE m
    /\ IF UpdateDue(step, gradient_accumulation_steps)
       THEN /\ lr_this_step' = IF LoopSetsRate(options.fp16)
                                THEN <<global_step, num_train_optimization_steps>>
                                ELSE lr_this_step
            /\ optimizer' = [optimizer EXCEPT !.steps = @ + 1]
            /\ grads' = 0
            /\ global_step' = global_step + 1
       ELSE /\ grads' = grads + 1
            /\ UNCHANGED <<optimizer, global_step, lr_this_step>>
    /\ step' = step + 1
    /\ pc' = IF step + 1 = NumBatches THEN "save_weights" ELSE "batch"
    /\ UNCHANGED <<err, run, dir, do_train,
                   gradient_accumulation_steps, train_batch_size, n_examples,
                   num_train_epochs_x2, num_train_optimization_steps,
                   max_epoch, model_file, optimizer_file, ep, written,
                   config_file,
                   options, loaded, eval_features>>

\* Lines 628-630.
SaveWeights ==
    /\ pc = "save_weights"
    /\ dir' = Save(dir, WeightsFile(ep), model)
    /\ written' = Append(written, WeightsFile(ep))
    /\ pc' = "save_optimizer"
    /\ UNCHANGED <<err, run, do_train, gradient_accumulation_steps,
                   train_batch_size, n_examples, num_train_epochs_x2,
                   num_train_optimization_steps, max_epoch, model, model_file,
                   optimizer, optimizer_file, grads, global_step, ep, step,
                   config_file,
                   options, loaded, eval_features, lr_this_step>>

\* Lines 631-632.
SaveOptimizer ==
    /\ pc = "save_optimizer"
    /\ dir' = Save(dir, OptimizerFile(ep), optimizer)
    /\ written' = Append(written, OptimizerFile(ep))
    /\ pc' = "save_config"
    /\ UNCHANGED <<err, run, do_train, gradient_accumulation_steps,
                   train_batch_size, n_examples, num_train_epochs_x2,
                   num_train_optimization_steps, max_epoch, model, model_file,
                   optimizer, optimizer_file, grads, global_step, ep, step,
                   config_file,
                   options, loaded, eval_features, lr_this_step>>

\* Lines 633-635; the epoch loop goes on to its next iteration.
SaveConfig ==
    /\ pc = "save_config"
    /\ dir' = Save(dir, ConfigFile(ep), TheConfig)
    /\ written' = Append(written, ConfigFile(ep))
    /\ ep' = ep + 1
    /\ pc' = "epoch"
    /\ UNCHANGED <<err, run, do_train, gradient_accumulation_steps,
                   train_batch_size, n_examples, num_train_epochs_x2,
                   num_train_optimization_steps, max_epoch, model, model_file,
                   optimizer, optimizer_file, grads, global_step, step,
                   config_file,
                   options, loaded, eval_features, lr_this_step>>

\* Lines 637-641.
FinalSaveWeights ==
    /\ pc = "final_weights"
    /\ dir' = Save(dir, FinalWeightsFile, model)
    /\ written' = Append(written, FinalWeightsFile)
    /\ pc' = "final_optimizer"
    /\ UNCHANGED <<err, run, do_train, gradient_accumulation_steps,
                   train_batch_size, n_examples, num_train_epochs_x2,
                   num_train_optimization_steps, max_epoch, model, model_file,
                   optimizer, optimizer_file, grads, global_step, ep, step,
                   config_file,
                   options, loaded, eval_features, lr_this_step>>

\* Lines 642-643.
FinalSaveOptimizer ==
    /\ pc = "final_optimizer"
    /\ dir' = Save(dir, FinalOptimizerFile, optimizer)
    /\ written' = Append(written, FinalOptimizerFile)
    /\ pc' = "final_config"
    /\ UNCHANGED <<err, run, do_train, gradient_accumulation_steps,
                   train_batch_size, n_examples, num_train_epochs_x2,
                   num_train_optimization_steps, max_epoch, model, model_file,
                   optimizer, optimizer_file, grads, global_step, ep, step,
                   config_file,
                   options, loaded, eval_features, lr_this_step>>

\* Lines 644-646.
FinalSaveConfig ==
    /\ pc = "final_config"
    /\ dir' = Save(dir, FinalConfigFile, TheConfig)
    /\ written' = Append(written, FinalConfigFile)
    /\ pc' = "reload"
    /\ UNCHANGED <<err, run, do_train, gradient_accumulation_steps,
                   train_batch_size, n_examples, num_train_epochs_x2,
                   num_train_optimization_steps, max_epoch, model, model_file,
                   optimizer, optimizer_file, grads, global_step, ep, step,
                   config_file,
                   options, loaded, eval_features, lr_this_step>>

\* Lines 648-655: the configuration and the weights just written are loaded
\* into a new student; main returns.
Reload ==
    /\ pc = "reload"
    /\ config_file' = FinalConfigFile
    /\ model' = dir[FinalWeightsFile]
    /\ model_file' = FinalWeightsFile
    /\ pc' = "done"
    /\ UNCHANGED <<err, run, dir, do_train,
                   gradient_accumulation_steps, train_batch_size, n_examples,
                   num_train_epochs_x2, num_train_optimization_steps,
                   max_epoch, optimizer, optimizer_file, grads, global_step,
                   ep, step, written,
                   options, loaded, eval_features, lr_this_step>>

\* The process is gone; the output directory stays.
Exit ==
    /\ pc \in {"done", "error"}
    /\ pc' = "idle"
    /\ err' = ""
    /\ do_train' = FALSE
    /\ gradient_accumulation_steps' = 1
    /\ train_batch_size' = 1
    /\ n_examples' = 1
    /\ num_train_epochs_x2' = 0
    /\ num_train_optimization_steps' = 0
    /\ max_epoch' = -1
    /\ model' = FreshModel
    /\ model_file' = NoFile
    /\ config_file' = NoFile
    /\ optimizer' = FreshOptimizer
    /\ optimizer_file' = NoFile
    /\ grads' = 0
    /\ global_step' = 0
    /\ ep' = 0
    /\ step' = 0
    /\ written' = << >>
    /\ options' = DefaultOptions
    /\ loaded' = {}
    /\ eval_features' = FALSE
    /\ lr_this_step' = NoRate
    /\ UNCHANGED <<run, dir>>

Init ==
    /\ EncIdle
    /\ MainIdle
    /\ label_list = <<<<"a", TAB, "1">>>>
    /\ max_seq_length = MaxSeqLength

Next ==
    \/ StartRun /\ UNCHANGED encVars
    \/ LoadData /\ UNCHANGED encVars
    \/ LoadTeacher /\ UNCHANGED encVars
    \/ BuildStudent /\ UNCHANGED encVars
    \/ BuildOptimizer /\ UNCHANGED encVars
    \/ SetupTraining /\ UNCHANGED encVars
    \/ BeginEpoch /\ UNCHANGED encVars
    \/ TrainBatch /\ UNCHANGED encVars
    \/ SaveWeights /\ UNCHANGED encVars
    \/ SaveOptimizer /\ UNCHANGED encVars
    \/ SaveConfig /\ UNCHANGED encVars
    \/ FinalSaveWeights /\ UNCHANGED encVars
    \/ FinalSaveOptimizer /\ UNCHANGED encVars
    \/ FinalSaveConfig /\ UNCHANGED encVars
    \/ Reload /\ UNCHANGED encVars
    \/ Exit /\ UNCHANGED encVars

Spec == Init /\ [][Next]_vars

\* The process is terminated from outside (a signal) between two steps of
\* main; the output directory stays as it is.
Kill ==
    /\ pc \notin {"idle", "done", "error"}
    /\ pc' = "idle"
    /\ err' = ""
    /\ do_train' = FALSE
    /\ gradient_accumulation_steps' = 1
    /\ train_batch_size' = 1
    /\ n_examples' = 1
    /\ num_train_epochs_x2' = 0
    /\ num_train_optimization_steps' = 0
    /\ max_epoch' = -1
    /\ model' = FreshModel
    /\ model_file' = NoFile
    /\ config_file' = NoFile
    /\ optimizer' = FreshOptimizer
    /\ optimizer_file' = NoFile
    /\ grads' = 0
    /\ global_step' = 0
    /\ ep' = 0
    /\ step' = 0
    /\ written' = << >>
    /\ options' = DefaultOptions
    /\ loaded' = {}
    /\ eval_features' = FALSE
    /\ lr_this_step' = NoRate
    /\ UNCHANGED <<run, dir>>

\* One run of main with every combination of the four options.
OptionsNext ==
    \/ StartRunOptions /\ UNCHANGED encVars
    \/ LoadData /\ UNCHANGED encVars
    \/ LoadTeacher /\ UNCHANGED encVars
    \/ BuildStudent /\ UNCHANGED encVars
    \/ BuildOptimizer /\ UNCHANGED encVars
    \/ SetupTraining /\ UNCHANGED encVars
    \/ BeginEpoch /\ UNCHANGED encVars
    \/ TrainBatch /\ UNCHANGED encVars
    \/ SaveWeights /\ UNCHANGED encVars
    \/ SaveOptimizer /\ UNCHANGED encVars
    \/ SaveConfig /\ UNCHANGED encVars
    \/ FinalSaveWeights /\ UNCHANGED encVars
    \/ FinalSaveOptimizer /\ UNCHANGED encVars
    \/ FinalSaveConfig /\ UNCHANGED encVars
    \/ Reload /\ UNCHANGED encVars
    \/ Exit /\ UNCHANGED encVars

SpecOptions == Init /\ [][OptionsNext]_vars

\* Runs of main that may be terminated from outside at any point.
KillNext ==
    \/ StartRun /\ UNCHANGED encVars
    \/ LoadData /\ UNCHANGED encVars
    \/ LoadTeacher /\ UNCHANGED encVars
    \/ BuildStudent /\ UNCHANGED encVars
    \/ BuildOptimizer /\ UNCHANGED encVars
    \/ SetupTraining /\ UNCHANGED encVars
    \/ BeginEpoch /\ UNCHANGED encVars
    \/ TrainBatch /\ UNCHANGED encVars
    \/ SaveWeights /\ UNCHANGED encVars
    \/ SaveOptimizer /\ UNCHANGED encVars
    \/ SaveConfig /\ UNCHANGED encVars
    \/ FinalSaveWeights /\ UNCHANGED encVars
    \/ FinalSaveOptimizer /\ UNCHANGED encVars
    \/ FinalSaveConfig /\ UNCHANGED encVars
    \/ Reload /\ UNCHANGED encVars
    \/ Exit /\ UNCHANGED encVars
    \/ Kill /\ UNCHANGED encVars

SpecKill == Init /\ [][KillNext]_vars

\* The encoder on examples: every step of convert_examples_to_features.
EncInit ==
    /\ EncIdle
    /\ MainIdle
    /\ label_list \in EncVocabularies
    /\ max_seq_length \in 1..MaxSeqLength

EncNext ==
    \/ Prepare /\ UNCHANGED mainVars
    \/ \E t \in Texts : BeginExample(t) /\ UNCHANGED mainVars
    \/ \E i \in Positions, l \in AnnLabels : Annotate(i, l) /\ UNCHANGED mainVars
    \/ \E p \in Positions : EndExample(p) /\ UNCHANGED mainVars
    \/ Finish /\ UNCHANGED mainVars

SpecEnc == EncInit /\ [][EncNext]_vars

\* The encoder on examples whose window holds one token more, so that two
\* annotations of one example can sit on different tokens.
AnnInit ==
    /\ EncIdle
    /\ MainIdle
    /\ label_list = <<<<"a", TAB, "1">>, <<"b", TAB, "1">>, <<"a", TAB, "2">>>>
    /\ max_seq_length = MaxSeqLength + 1

SpecAnn == AnnInit /\ [][EncNext]_vars

\* The encoder on every vocabulary, without examples, called twice.
VocabInit ==
    /\ EncIdle
    /\ MainIdle
    /\ label_list \in Vocabularies
    /\ max_seq_length = MaxSeqLength

VocabNext ==
    \/ Prepare /\ UNCHANGED mainVars
    \/ Finish /\ UNCHANGED mainVars
    \/ CallAgain /\ UNCHANGED mainVars

SpecVocab == VocabInit /\ [][VocabNext]_vars

\* ------------------------------------------------------------ properties

\* The character component of a label: what precedes its first separator,
\* the first character when it has none.
CharOf(l) ==
    IF TAB \in RangeOf(l)
    THEN SubSeq(l, 1, (CHOOSE k \in 1..Len(l) :
                          l[k] = TAB /\ \A m \in 1..(k - 1) : l[m] # TAB) - 1)
    ELSE <<l[1]>>

WithSeparator(l) ==
    IF TAB \in RangeOf(l) THEN l ELSE <<l[1], TAB>> \o Tail(l)

\* C1: for max_seq_length >= 2 every feature the encoder appends has
\* input_ids, input_mask and label_ids of length exactly max_seq_length, and
\* the length checks never stop the encoding, whatever the length of the
\* example's token sequence: an AssertionError is always the position check.
C1_FeatureLengths ==
    max_seq_length >= 2 =>
        /\ feature # NoFeature =>
              /\ Len(feature.input_ids) = max_seq_length
              /\ Len(feature.input_mask) = max_seq_length
              /\ Len(feature.label_id) = max_seq_length
        /\ (e_pc = "failed" /\ e_err = "AssertionError") =>
              position + 1 >= max_seq_length

\* A feature of full length for a token sequence longer than
\* max_seq_length - 2.
C1_Witness ==
    /\ max_seq_length >= 2
    /\ feature # NoFeature
    /\ Len(text) > max_seq_length - 2
    /\ Len(feature.input_ids) = max_seq_length
    /\ feature.input_mask = Repeat(1, max_seq_length)

\* C2: after the single annotation (p, l) of an example (max_seq_length >= 2,
\* l a label of the vocabulary or a mismatching one): when the token at
\* index p + 1 equals l's character component, label_ids holds l's vocabulary
\* index at p + 1 and -1 everywhere else; when it does not (p + 1 beyond the
\* truncated tokens included), label_ids is -1 everywhere and nothing is
\* raised.
C2_OneAnnotation ==
    (n_ann = 1 /\ max_seq_length >= 2) =>
        LET p == ann_i
            l == ann_l
            matches == /\ l # <<>>
                       /\ p + 1 < Len(tokens)
                       /\ tokens[p + 2] = CharOf(l)
            known == \E k \in 1..Len(label_list) : label_list[k] = WithSeparator(l)
        IN  /\ (matches /\ known) =>
                  /\ e_pc = "labels"
                  /\ e_err = ""
                  /\ label_ids[p + 2] \in 0..(Len(label_list) - 1)
                  /\ label_list[label_ids[p + 2] + 1] = WithSeparator(l)
                  /\ \A q \in 1..Len(label_ids) : q # p + 2 => label_ids[q] = -1
            /\ ~matches =>
                  /\ e_pc = "labels"
                  /\ e_err = ""
                  /\ \A q \in 1..Len(label_ids) : label_ids[q] = -1

\* One legacy-format annotation accepted at the first real token.
C2_Witness ==
    /\ n_ann = 1
    /\ e_pc = "labels"
    /\ max_seq_length >= 3
    /\ ann_l = <<"a", "1">>
    /\ ann_i = 0
    /\ label_ids[2] = 1
    /\ label_ids[1] = -1
    /\ label_ids[3] = -1

FracLess(x, y) == x[1] * y[2] < y[1] * x[2]

\* C4: the counts change only by one accepted annotation adding 1 to the
\* count of the label written into label_ids; and on return, with maxCount
\* the largest count, every weight is maxCount / (count + 100), so a label
\* never seen weighs maxCount / 100, strictly more than any label seen.
C4_WeightResult ==
    e_pc = "done" =>
        LET maxCount == CHOOSE c \in { label_count[k] : k \in DOMAIN label_count } :
                           \A k \in DOMAIN label_count : label_count[k] <= c
        IN  /\ DOMAIN weight = 0..(Len(label_list) - 1)
            /\ \A k \in DOMAIN weight :
                  /\ weight[k] = <<maxCount, label_count[k] + 100>>
                  /\ label_count[k] = maxCount =>
                        weight[k] = <<maxCount, maxCount + 100>>
                  /\ label_count[k] = 0 => weight[k] = <<maxCount, 100>>
            /\ \A k0 \in DOMAIN weight, k1 \in DOMAIN weight :
                  (label_count[k0] = 0 /\ label_count[k1] > 0) =>
                      FracLess(weight[k1], weight[k0])

C4_CountStep ==
    (e_pc = "labels" /\ label_count' # label_count) =>
        /\ label_ids'[ann_i' + 2] \in DOMAIN label_count
        /\ label_count' = [label_count EXCEPT ![label_ids'[ann_i' + 2]] = @ + 1]
        /\ tokens[ann_i' + 2] = CharOf(ann_l')

\* C4: the returned class weights are maxCount / (count + 100) over the counts
\* of accepted annotations, and a count moves only with an accepted annotation.
C4_ClassWeight == [](C4_WeightResult) /\ [][C4_CountStep]_vars

\* Returned weights with one label seen twice and one never seen.
C4_Witness ==
    /\ e_pc = "done"
    /\ Len(label_list) >= 2
    /\ \E k0 \in DOMAIN weight, k1 \in DOMAIN weight :
          /\ label_count[k0] = 0
          /\ label_count[k1] = 2
          /\ weight[k1] = <<2, 102>>
          /\ weight[k0] = <<2, 100>>

\* C7: a normalisation pass leaves every label that has the separator as it
\* is, turns every other label into first character + separator + the rest,
\* leaves the separator in every label, and a second pass over the same list
\* changes nothing.
C7_PassStep ==
    (e_pc = "start" /\ e_pc' = "examples") =>
        /\ Len(label_list') = Len(label_list)
        /\ \A k \in 1..Len(label_list) :
              /\ TAB \in RangeOf(label_list[k]) => label_list'[k] = label_list[k]
              /\ TAB \notin RangeOf(label_list[k]) =>
                    /\ Len(label_list'[k]) = Len(label_list[k]) + 1
                    /\ label_list'[k][1] = label_list[k][1]
                    /\ label_list'[k][2] = TAB
                    /\ \A m \in 2..Len(label_list[k]) :
                          label_list'[k][m + 1] = label_list[k][m]
              /\ TAB \in RangeOf(label_list'[k])
        /\ calls = 1 => label_list' = label_list

\* C7: every normalisation pass over the label list behaves as stated above;
\* the second pass is a no-op.
C7_Normalization == [][C7_PassStep]_vars

\* The second pass is over, on a list that held two legacy labels.
C7_Witness ==
    /\ calls = 2
    /\ e_pc = "examples"
    /\ Len(label_list) = 3
    /\ label_list[1] = <<"b", TAB, "2">>
    /\ label_list[2] = <<"a", TAB, "1">>
    /\ label_list[3] = <<"b", TAB>>

\* C8: every appended feature has label_pos = example.position + 1, below
\* max_seq_length; an example whose position + 1 reaches max_seq_length ends
\* the encoding with an AssertionError and adds no feature.
C8_LabelPos ==
    /\ feature # NoFeature =>
          /\ feature.label_pos = position + 1
          /\ feature.label_pos < max_seq_length
    /\ position + 1 >= max_seq_length =>
          /\ e_pc = "failed"
          /\ e_err = "AssertionError"
          /\ feature = NoFeature

\* The second example is out of the window: the first one's feature is
\* lost with the exception.
C8_Witness ==
    /\ max_seq_length >= 2
    /\ n_features = 1
    /\ position + 1 = max_seq_length
    /\ e_pc = "failed"

\* The epoch tags of the weights files in the output directory.
WeightsTags(d) == { f.tag : f \in { g \in DOMAIN d : g.kind = "weights" /\ g.tagged } }

\* C5: a training run started on a directory whose weights files carry the
\* non-empty set S of epoch tags finds max_epoch = max(S), loads the student
\* from the weights file tagged max(S), and loads the optimizer from the
\* optimizer file tagged max(S) (present whenever the run that wrote the
\* weights completed that epoch's checkpoint) and from no other file.
C5_ResumeLatest ==
    (pc \in {"optimizer", "setup"} /\ do_train /\ WeightsTags(dir) # {}) =>
        /\ max_epoch \in WeightsTags(dir)
        /\ \A e \in WeightsTags(dir) : e <= max_epoch
        /\ model_file = WeightsFile(max_epoch)
        /\ model = dir[WeightsFile(max_epoch)]
        /\ pc = "setup" =>
              /\ OptimizerFile(max_epoch) \in DOMAIN dir
              /\ optimizer_file = OptimizerFile(max_epoch)
              /\ optimizer = dir[OptimizerFile(max_epoch)]

\* A run resumed from epoch 1 of a directory that also holds epoch 0, whose
\* two checkpoints differ.
C5_Witness ==
    /\ pc = "setup"
    /\ do_train
    /\ WeightsTags(dir) = {0, 1}
    /\ max_epoch = 1
    /\ model_file = WeightsFile(1)
    /\ optimizer_file = OptimizerFile(1)
    /\ dir[WeightsFile(0)] # dir[WeightsFile(1)]
    /\ dir[OptimizerFile(0)] # dir[OptimizerFile(1)]

\* C6: a batch of the training loop takes the optimizer step, resets the
\* gradients and adds exactly 1 to global_step, all three together, when
\* its 1-based index in the epoch is a multiple of
\* gradient_accumulation_steps, and does none of the three otherwise; no
\* other step of the run advances global_step or the optimizer.
C6_BatchStep ==
    /\ pc = "batch" =>
          IF (step + 1) % gradient_accumulation_steps = 0
          THEN /\ optimizer'.steps = optimizer.steps + 1
               /\ grads' = 0
               /\ global_step' = global_step + 1
          ELSE /\ optimizer' = optimizer
               /\ grads' = grads + 1
               /\ global_step' = global_step
    /\ (global_step' > global_step \/ optimizer'.steps > optimizer.steps) =>
          pc \in {"batch", "optimizer"}
    /\ pc = "optimizer" => global_step' = 0

\* C6: every step of the run updates the optimizer, resets the gradient and
\* counts a global step together, and only after every k-th batch.
C6_Accumulation == [][C6_BatchStep]_vars

\* Factor 2, three batches in the epoch: the second batch has stepped, the
\* third leaves its gradient pending.
C6_Witness ==
    /\ gradient_accumulation_steps = 2
    /\ pc = "save_weights"
    /\ step = 3
    /\ ep = 0
    /\ global_step = 1
    /\ optimizer.steps = 1
    /\ grads = 1

InSeq(q, x) == \E k \in 1..Len(q) : q[k] = x

\* C9: whenever the loop stands at an epoch e >= 1 (before its first batch
\* and during it), this run has written the weights, the optimizer state and
\* the configuration under every tag below e and the three files are in the
\* directory; and no step removes a file from the directory.
C9_EpochFiles ==
    (pc \in {"epoch", "batch", "save_weights", "save_optimizer", "save_config"}) =>
        \A e \in 0..(ep - 1) :
            /\ InSeq(written, WeightsFile(e))
            /\ InSeq(written, OptimizerFile(e))
            /\ InSeq(written, ConfigFile(e))
            /\ {WeightsFile(e), OptimizerFile(e), ConfigFile(e)} \subseteq DOMAIN dir

C9_Grows == (DOMAIN dir) \subseteq (DOMAIN dir')

\* C9: each finished epoch is checkpointed under its tag before the next one
\* starts, and the directory never loses a file.
C9_Checkpoints == [](C9_EpochFiles) /\ [][C9_Grows]_vars

\* The first batch of epoch 1 is about to run, epoch 0 is checkpointed.
C9_Witness ==
    /\ pc = "batch"
    /\ ep = 1
    /\ step = 0
    /\ Len(written) = 3
    /\ {WeightsFile(0), OptimizerFile(0), ConfigFile(0)} \subseteq DOMAIN dir

\* What a complete training run of n epochs writes, in order.
ExpectedWrites(n) ==
    [k \in 1..(3 * n + 3) |->
        IF k <= 3 * n
        THEN LET e == (k - 1) \div 3 IN
             CASE (k - 1) % 3 = 0 -> WeightsFile(e)
               [] (k - 1) % 3 = 1 -> OptimizerFile(e)
               [] (k - 1) % 3 = 2 -> ConfigFile(e)
        ELSE CASE k = 3 * n + 1 -> FinalWeightsFile
               [] k = 3 * n + 2 -> FinalOptimizerFile
               [] k = 3 * n + 3 -> FinalConfigFile]

\* C10: a training run is finished only with every epoch 0..n-1
\* (n = int(num_train_epochs)) checkpointed in turn, then the untagged
\* weights, optimizer and configuration written last, and with the student
\* and its configuration loaded back from the untagged files; that reload
\* happens in the very step that finishes the run.
C10_Done ==
    (pc = "done" /\ do_train) =>
        /\ written = ExpectedWrites(num_train_epochs_x2 \div 2)
        /\ ep = num_train_epochs_x2 \div 2
        /\ model_file = FinalWeightsFile
        /\ config_file = FinalConfigFile
        /\ model = dir[FinalWeightsFile]

C10_ReloadStep ==
    (model_file' = FinalWeightsFile /\ model_file # FinalWeightsFile) =>
        /\ pc = "reload"
        /\ pc' = "done"
        /\ written = ExpectedWrites(num_train_epochs_x2 \div 2)

\* C10: a finished training run has checkpointed every epoch, then written
\* the untagged files, then reloaded them in its last step.
C10_Finish == [](C10_Done) /\ [][C10_ReloadStep]_vars

\* A run of 2 epochs is finished: nine files written.
C10_Witness ==
    /\ pc = "done"
    /\ do_train
    /\ num_train_epochs_x2 = 4
    /\ Len(written) = 9
    /\ written[6] = ConfigFile(1)
    /\ written[7] = FinalWeightsFile
    /\ model_file = FinalWeightsFile

\* ---------------------------------------------------------------- C11
TaggedWeights(d) == { g \in DOMAIN d : g.kind = "weights" /\ g.tagged }

\* A run stopped by the missing checkpoint has trained nothing and written
\* nothing.
C11_NoWork ==
    (pc = "error" /\ err = NoCheckpoint) =>
        /\ written = << >>
        /\ global_step = 0
        /\ model = FreshModel
        /\ optimizer = FreshOptimizer

\* A training run that finds its output directory non-empty and without any
\* epoch-tagged weights file stops there with the fatal error, the directory
\* untouched.
C11_AbortStep ==
    (pc = "student" /\ do_train /\ DOMAIN dir # {} /\ TaggedWeights(dir) = {}) =>
        /\ pc' = "error"
        /\ err' = NoCheckpoint
        /\ dir' = dir

\* C11: when training is requested on a non-empty output directory that holds
\* no epoch-tagged weights file (also when it holds only the untagged final
\* files), the run aborts with a fatal error, trains no step and writes no
\* checkpoint.
C11_NoResume == [](C11_NoWork) /\ [][C11_AbortStep]_vars

\* The run was stopped on a directory that holds the untagged weights only.
C11_Witness ==
    /\ pc = "error"
    /\ err = NoCheckpoint
    /\ FinalWeightsFile \in DOMAIN dir
    /\ TaggedWeights(dir) = {}

\* ---------------------------------------------------------------- C12
\* C12: a run stopped by a configuration error (accumulation factor below 1,
\* neither training nor evaluation requested, no pretrained model and no
\* configuration path) has loaded neither the corpus nor the tokenizer nor
\* the teacher.
C12_ConfigErrorsEarly ==
    (pc = "error" /\ err \in {BadAccumulation, NoMode, NoConfig}) => loaded = {}

\* ---------------------------------------------------------------- C13
\* C13: with evaluation every epoch configured (the held-out features are
\* encoded), the step that follows an epoch's checkpoint is an evaluation
\* pass, before any batch of the next epoch.
C13_EvalEveryEpoch ==
    [][(pc = "save_config" /\ eval_features)
          => pc' = "evaluate"]_vars

\* ---------------------------------------------------------------- C14
\* A parameter update, and the loop setting the rate at it from the fraction
\* global_step / num_train_optimization_steps.
ParameterUpdate == pc = "batch" /\ global_step' = global_step + 1
RateSet == lr_this_step' = <<global_step, num_train_optimization_steps>>

\* C14 as stated: at a parameter update the loop sets the rate from the
\* warmup fraction exactly when the run is not in reduced precision.
C14_RateOutsideFp16 ==
    [][ParameterUpdate => (RateSet <=> ~options.fp16)]_vars

\* C14 amended: at a parameter update the loop sets the rate from the warmup
\* fraction global_step / total exactly when the run is in reduced
\* precision; outside it the loop never sets the rate, and no other step of a
\* run touches it.
C14_RateStep ==
    /\ ParameterUpdate => (RateSet <=> options.fp16)
    /\ (ParameterUpdate /\ ~options.fp16) => lr_this_step' = NoRate
    /\ (~ParameterUpdate /\ pc \notin {"idle", "done", "error"})
          => lr_this_step' = lr_this_step

C14_RateInFp16 == [][C14_RateStep]_vars

\* A reduced-precision run at its second update: the rate was set at
\* fraction 1 / total.
C14_Witness ==
    /\ options.fp16
    /\ global_step = 2
    /\ lr_this_step = <<1, num_train_optimization_steps>>
    /\ num_train_optimization_steps >= 2

\* ---------------------------------------------------------------- C17
\* C17: a run that is training on weights restored from the file tagged k has
\* restored its optimizer from the optimizer file of the same tag k, never a
\* fresh optimizer or one of another tag, whatever happened to earlier runs.
C17_SameTagResume ==
    (pc = "batch" /\ model_file.kind = "weights" /\ model_file.tagged) =>
        optimizer_file = OptimizerFile(model_file.tag)

\* ---------------------------------------------------------------- C18
\* C18: a run resumed from epoch k writes its first epoch checkpoint under
\* tag k + 1, and every weights file tagged e in the directory holds the student
\* after exactly e + 1 epochs of training.
C18_ContinueAfterLatest ==
    /\ (/\ model_file.kind = "weights" /\ model_file.tagged
        /\ written # << >> /\ written[1].tagged)
          => written[1] = WeightsFile(max_epoch + 1)
    /\ \A f \in TaggedWeights(dir) : dir[f].epochs = f.tag + 1

\* ---------------------------------------------------------------- C19
\* C19: in a training run the global step counter never exceeds the
\* precomputed number of optimization steps.
C19_StepsWithinTotal ==
    (do_train /\ pc \in {"batch", "save_weights", "save_optimizer",
                          "save_config", "epoch"})
        => global_step <= num_train_optimization_steps

\* ---------------------------------------------------------------- C20
\* C20: when the weights of an epoch checkpoint or of the final checkpoint
\* are about to be written, no accumulated gradient is pending.
C20_NoPendingGradient ==
    pc \in {"save_weights", "final_weights"} => grads = 0

\* ---------------------------------------------------------------- C15
\* C15 as stated: in every encoded feature label_ids differs from -1 at no
\* index other than label_pos.
C15_OnlyAtLabelPos ==
    feature # NoFeature =>
        \A j \in 1..Len(feature.label_id) :
            feature.label_id[j] # -1 => j - 1 = feature.label_pos

\* label_ids is all -1 when the annotations of an example begin.
C15_Fresh ==
    (e_pc = "labels" /\ n_ann = 0) =>
        \A j \in 1..Len(label_ids) : label_ids[j] = -1

\* One annotation (i, l): label_ids changes at most at index i + 1, only when
\* the token there is l's character, and then holds a label index there; the
\* entries set by earlier annotations stay. The finished example's feature
\* carries label_ids as the annotations left it, and label_pos is
\* position + 1 whatever the annotations were.
C15_Step ==
    /\ (e_pc = "labels" /\ n_ann' = n_ann + 1) =>
          /\ \A j \in 1..Len(label_ids) :
                label_ids'[j] # label_ids[j] =>
                    /\ j - 1 = ann_i' + 1
                    /\ AnnotationMatches(tokens, ann_i', ann_l')
          /\ (AnnotationMatches(tokens, ann_i', ann_l') /\ e_pc' = "labels") =>
                label_ids'[ann_i' + 2] \in 0..(Len(label_list) - 1)
    /\ (e_pc = "labels" /\ e_pc' = "examples") =>
          /\ feature'.label_id = label_ids
          /\ feature'.label_pos = position' + 1

\* C15 amended: label_ids differs from -1 exactly at the indices i + 1 of the
\* example's accepted annotations (i, l), one entry per accepted position,
\* also several of them; label_pos is position + 1, a field of its own.
C15_AtAcceptedAnnotations == [](C15_Fresh) /\ [][C15_Step]_vars

\* A feature of an example with two accepted annotations on different
\* tokens: two entries of label_ids differ from -1.
C15_Witness ==
    /\ feature # NoFeature
    /\ Len(feature.label_id) = 4
    /\ feature.label_id[2] # -1
    /\ feature.label_id[3] # -1
    /\ feature.label_pos = 2

\* ---------------------------------------------------------------- C16
\* C16 as stated: heads 0-1 are strictly lower triangular, heads 2-3 strictly
\* upper triangular, heads 4-5 the window |r - c| <= 1, of 12 heads.
C16_StrictTriangles ==
    attention_mask # <<>> =>
        /\ DOMAIN attention_mask = 0..11
        /\ \A r \in 0..(max_seq_length - 1), c \in 0..(max_seq_length - 1) :
              /\ \A h \in {0, 1} : (attention_mask[h][r][c] = 1) <=> (c < r)
              /\ \A h \in {2, 3} : (attention_mask[h][r][c] = 1) <=> (c > r)
              /\ \A h \in {4, 5} : (attention_mask[h][r][c] = 1) <=> (r - c \in -1..1)

\* C16 amended: heads 0-1 are lower triangular with the diagonal (1 iff
\* c <= r), heads 2-3 upper triangular with the diagonal (1 iff c >= r),
\* heads 4-5 the window |r - c| <= 1, every entry is 0 or 1, and heads 6-11
\* of the 12 are all ones.
C16_TrianglesWithDiagonal ==
    attention_mask # <<>> =>
        /\ DOMAIN attention_mask = 0..11
        /\ \A r \in 0..(max_seq_length - 1), c \in 0..(max_seq_length - 1) :
              /\ \A h \in 0..11 : attention_mask[h][r][c] \in {0, 1}
              /\ \A h \in {0, 1} : (attention_mask[h][r][c] = 1) <=> (c <= r)
              /\ \A h \in {2, 3} : (attention_mask[h][r][c] = 1) <=> (c >= r)
              /\ \A h \in {4, 5} : (attention_mask[h][r][c] = 1) <=> (r - c \in -1..1)
              /\ \A h \in 6..11 : attention_mask[h][r][c] = 1

\* The mask of a window of 3: the diagonal is open in the left and right
\* heads, the corner is closed in the local heads.
C16_Witness ==
    /\ e_pc = "examples"
    /\ max_seq_length = 3
    /\ attention_mask[0][1][1] = 1
    /\ attention_mask[0][0][1] = 0
    /\ attention_mask[2][1][1] = 1
    /\ attention_mask[2][1][0] = 0
    /\ attention_mask[4][0][2] = 0

====
